---- MODULE Spec2Model ----
(***************************************************************************)
(* Market-price estimation and wishlist monitoring of the collector's      *)
(* inventory application: the two edge functions                           *)
(*   supabase/functions/market-analysis/index.ts  (generateSearchTerms,    *)
(*     searcheBaySoldListings, getMockData, calculateMarketAnalysis,       *)
(*     the POST /market-analysis handler)                                  *)
(*   the ebay-monitor function, src/unnamed/part_000 (searchEbayListings,  *)
(*     getMockEbayData, processWishlistItem, the POST /ebay-monitor        *)
(*     handler)                                                            *)
(*                                                                         *)
(* Strings are sequences of atoms.  An atom is a whitespace character SP,  *)
(* a lone UTF-16 surrogate LONE, or a word; no word starts with another    *)
(* atom, so two atom sequences are equal exactly when the strings they     *)
(* spell are equal.  Prices are integers in mills (1/1000 of a dollar), so *)
(* that rounding to cents is not the identity.                             *)
(***************************************************************************)
EXTENDS Integers, Sequences, FiniteSets, TLC

VARIABLES
    pc,            \* position of the market-analysis request / pure-function run
    req,           \* the inbound Request: method and body
    appId,         \* whether EBAY_APP_ID is configured (market-analysis)
    requestData,   \* MarketAnalysisRequest parsed from the body
    searchTerms,   \* result of generateSearchTerms
    termIdx,       \* searcheBaySoldListings: index of the term being searched
    results,       \* searcheBaySoldListings: results accumulated so far
    calls,         \* searcheBaySoldListings: live calls and delays, in order
    searchOutcome, \* how searcheBaySoldListings ended: returned or raised
    soldItems,     \* eBayItem[] handed to calculateMarketAnalysis
    analysis,      \* result of calculateMarketAnalysis
    response,      \* the Response of the market-analysis handler
    wishlist_items,   \* table wishlist_items: id -> row
    found_listings,   \* table found_listings: the rows in insertion order
    monAppId,         \* whether EBAY_APP_ID is configured (ebay-monitor)
    mon,              \* per ebay-monitor request in flight: its locals and position
    served,           \* ebay-monitor requests received so far; Date.now() of the latest
    failures,         \* store calls that have failed so far
    runs              \* the latest two processWishlistItem runs that searched

marketVars == <<req, appId, termIdx, results, calls, searchOutcome, response>>

analysisVars == <<pc, req, appId, requestData, searchTerms, termIdx, results, calls,
                  searchOutcome, soldItems, analysis, response>>

monitorVars == <<wishlist_items, found_listings, monAppId, mon, served, failures, runs>>

vars == <<pc, req, appId, requestData, searchTerms, termIdx, results, calls,
          searchOutcome, soldItems, analysis, response,
          wishlist_items, found_listings, monAppId, mon, served, failures, runs>>

----------------------------------------------------------------------------
(* Bounds of the model *)

MaxNameLen == 2      \* atoms in itemName
MaxAttrLen == 1      \* atoms in manufacturer and in pattern
MaxSales   == 5      \* sold items in an enumerated input of calculateMarketAnalysis

----------------------------------------------------------------------------
(* Strings *)

SP   == " "
LONE == "\\uD800"

Range(s) == {s[i] : i \in 1..Len(s)}

StrsUpTo(atoms, n) == UNION {[1..k -> atoms] : k \in 0..n}

\* JS truthiness of a string: non-empty
Truthy(s) == s /= <<>>

RECURSIVE TrimStart(_)
TrimStart(s) == IF s /= <<>> /\ Head(s) = SP THEN TrimStart(Tail(s)) ELSE s

RECURSIVE TrimEnd(_)
TrimEnd(s) ==
    IF s /= <<>> /\ s[Len(s)] = SP THEN TrimEnd(SubSeq(s, 1, Len(s) - 1)) ELSE s

\* String.prototype.trim
Trim(s) == TrimEnd(TrimStart(s))

\* String.prototype.includes
Includes(s, t) == \E i \in 0..(Len(s) - Len(t)) : SubSeq(s, i + 1, i + Len(t)) = t

\* the template literal `${a} ${b}`
Tpl2(a, b) == a \o <<SP>> \o b
\* the template literal `${a} ${b} ${c}`
Tpl3(a, b, c) == a \o <<SP>> \o b \o <<SP>> \o c

\* [...new Set(xs)] keeping the last of equal entries  (mutation of SetInOrder)
SetInOrderKeepLast(xs) ==
    LET keep == {i \in 1..Len(xs) : \A j \in (i + 1)..Len(xs) : xs[j] /= xs[i]}
        F[i \in 0..Len(xs)] ==
            IF i = 0 THEN <<>>
            ELSE IF i \in keep THEN Append(F[i - 1], xs[i]) ELSE F[i - 1]
    IN  F[Len(xs)]

\* [...new Set(xs)]: insertion order, the first of equal entries kept
SetInOrder(xs) ==
    LET F[i \in 0..Len(xs)] ==
            IF i = 0 THEN <<>>
            ELSE IF xs[i] \in Range(F[i - 1]) THEN F[i - 1]
                 ELSE Append(F[i - 1], xs[i])
    IN  F[Len(xs)]

----------------------------------------------------------------------------
(* generateSearchTerms *)

VINTAGE == <<"vintage">>

\* the category ids of the application (DEFAULT_CATEGORIES)
Categories == {"milk_glass", "jadite", "blue_glass"}

\* the readable name of a category id: underscores become spaces
CategoryPhrase(category) ==
    CASE category = "milk_glass" -> <<"milk", SP, "glass">>
      [] category = "jadite"     -> <<"jadite">>
      [] category = "blue_glass" -> <<"blue", SP, "glass">>

\* const categoryName = request.category === 'milk_glass' ? 'milk glass' : 'jadite'
categoryName(request) ==
    IF request.category = "milk_glass" THEN <<"milk", SP, "glass">> ELSE <<"jadite">>

\* the three terms pushed first
baseTerms(request) ==
    LET c == categoryName(request)
        n == request.itemName
    IN  << Trim(Tpl2(n, c)), Trim(Tpl2(c, n)), Trim(Tpl3(VINTAGE, c, n)) >>

\* the terms pushed when request.manufacturer is truthy
manufacturerTerms(request) ==
    LET c == categoryName(request)
        n == request.itemName
        m == request.manufacturer
    IN  IF Truthy(m)
        THEN << Trim(Tpl2(m, c)), Trim(Tpl3(m, n, c)), Trim(Tpl2(c, m)),
                Trim(Tpl2(m, n)), Trim(Tpl2(n, m)) >>
        ELSE <<>>

\* the terms pushed when request.pattern is truthy
patternTerms(request) ==
    LET c == categoryName(request)
        p == request.pattern
    IN  IF Truthy(p) THEN << Trim(Tpl2(p, c)), Trim(Tpl2(c, p)) >> ELSE <<>>

combinedTerms(request) ==
    baseTerms(request) \o manufacturerTerms(request) \o patternTerms(request)

\* generateSearchTerms without the vintage term  (mutation)
generateSearchTermsNoVintage(request) ==
    SetInOrder(SelectSeq(SubSeq(combinedTerms(request), 1, 2)
                           \o SubSeq(combinedTerms(request), 4, Len(combinedTerms(request))),
                         Truthy))

\* return [...new Set(combinedTerms.filter(Boolean))]
generateSearchTerms(request) == SetInOrder(SelectSeq(combinedTerms(request), Truthy))

----------------------------------------------------------------------------
(* Requests that pass the handler's validation: itemName and category truthy *)

NameAtoms == {SP, "jadite", "Hen on Nest"}
AttrAtoms == {SP, "Fenton", "Hen on Nest"}

NoHttpRequest == [method |-> "", body |-> [kind |-> "none", data |-> <<>>]]
NoResponse == [status |-> 0]

NoRequest == [itemName |-> <<>>, category |-> "", manufacturer |-> <<>>, pattern |-> <<>>]

\* the scenario of the specification: Hen on Nest, milk_glass, Fenton
HenOnNest ==
    [itemName |-> <<"Hen on Nest">>, category |-> "milk_glass",
     manufacturer |-> <<"Fenton">>, pattern |-> <<>>]

GenRequests ==
    { [itemName |-> n, category |-> c, manufacturer |-> m, pattern |-> p] :
        n \in StrsUpTo(NameAtoms, MaxNameLen) \ {<<>>},
        c \in Categories,
        m \in StrsUpTo(AttrAtoms, MaxAttrLen),
        p \in StrsUpTo(AttrAtoms, MaxAttrLen) }

NoAnalysis ==
    [averagePrice |-> 0, recentSales |-> <<>>, priceRange |-> [min |-> 0, max |-> 0],
     confidence |-> "none"]

\* the ebay-monitor function at rest, its tables empty
MonitorIdle ==
    /\ wishlist_items = <<>>
    /\ found_listings = <<>>
    /\ monAppId = FALSE
    /\ mon = <<>>
    /\ served = 0
    /\ failures = 0
    /\ runs = <<>>

\* the market-analysis handler at rest
MarketIdle ==
    /\ req = NoHttpRequest
    /\ appId = FALSE
    /\ termIdx = 0
    /\ results = <<>>
    /\ calls = <<>>
    /\ searchOutcome = "none"
    /\ response = NoResponse

InitGenerate ==
    /\ pc = "generate"
    /\ MarketIdle
    /\ MonitorIdle
    /\ requestData \in GenRequests
    /\ searchTerms = <<>>
    /\ soldItems = <<>>
    /\ analysis = NoAnalysis

ApplyGenerate ==
    /\ pc = "generate"
    /\ searchTerms' = generateSearchTerms(requestData)
    /\ pc' = "generated"
    /\ UNCHANGED <<requestData, soldItems, analysis>>
    /\ UNCHANGED marketVars
    /\ UNCHANGED monitorVars

NextGenerate == ApplyGenerate

SpecGenerate == InitGenerate /\ [][NextGenerate]_vars

----------------------------------------------------------------------------
(* Properties of generateSearchTerms, checked under SpecGenerate *)

\* C7 (as stated): for every request with non-empty name and category,
\* generate returns at least 3 terms.
C7_AtLeastThreeTerms == pc = "generated" => Len(searchTerms) >= 3

\* the two name/category terms `name category` and `category name` after trimming
NameThenCategory(request) == Trim(Tpl2(request.itemName, categoryName(request)))
CategoryThenName(request) == Trim(Tpl2(categoryName(request), request.itemName))

\* C7 (amended): for every request with non-empty name and category, generate
\* returns at least 2 terms, and at least 3 terms unless `name category` and
\* `category name` are the same string after trimming.
C7_TermCount ==
    pc = "generated" =>
        /\ Len(searchTerms) >= 2
        /\ NameThenCategory(requestData) /= CategoryThenName(requestData)
              => Len(searchTerms) >= 3

\* C7 witness: a request whose two name/category terms differ was expanded to
\* exactly the three base terms.
C7_Witness ==
    /\ pc = "generated"
    /\ NameThenCategory(requestData) /= CategoryThenName(requestData)
    /\ requestData.manufacturer = <<>>
    /\ requestData.pattern = <<>>
    /\ Len(searchTerms) = 3

\* C8: every term returned by generate contains the human-readable phrase of
\* the request's own category, whatever the category and whether or not
\* manufacturer and pattern are present.
C8_EveryTermHasCategory ==
    pc = "generated" =>
        \A i \in 1..Len(searchTerms) :
            Includes(searchTerms[i], CategoryPhrase(requestData.category))

\* the candidate list as the specification words it, in priority order
ExpectedCandidates(request) ==
    LET n == request.itemName
        c == categoryName(request)
        m == request.manufacturer
        p == request.pattern
        one == << n \o <<SP>> \o c, c \o <<SP>> \o n, VINTAGE \o <<SP>> \o c \o <<SP>> \o n >>
        two == IF m /= <<>>
               THEN << m \o <<SP>> \o c, m \o <<SP>> \o n \o <<SP>> \o c, c \o <<SP>> \o m,
                       m \o <<SP>> \o n, n \o <<SP>> \o m >>
               ELSE <<>>
        three == IF p /= <<>> THEN << p \o <<SP>> \o c, c \o <<SP>> \o p >> ELSE <<>>
        all == one \o two \o three
    IN  [i \in 1..Len(all) |-> Trim(all[i])]

FirstIndex(xs, x) == CHOOSE i \in 1..Len(xs) : xs[i] = x /\ \A j \in 1..(i - 1) : xs[j] /= x

\* C9: generate returns exactly the candidates in the fixed priority order,
\* each trimmed, with empty strings and later exact duplicates removed and the
\* order of first occurrences kept; no empty string, no two equal strings.
C9_OrderedDistinctCandidates ==
    pc = "generated" =>
        LET cand == ExpectedCandidates(requestData) IN
        /\ Range(searchTerms) = Range(cand) \ {<<>>}
        /\ \A i, j \in 1..Len(searchTerms) : i /= j => searchTerms[i] /= searchTerms[j]
        /\ \A i, j \in 1..Len(searchTerms) :
              i < j => FirstIndex(cand, searchTerms[i]) < FirstIndex(cand, searchTerms[j])

\* C9 witness: an empty candidate and a non-adjacent duplicate were dropped
C9_Witness ==
    /\ pc = "generated"
    /\ <<>> \in Range(ExpectedCandidates(requestData))
    /\ \E i, j \in 1..Len(ExpectedCandidates(requestData)) :
          /\ i + 1 < j
          /\ ExpectedCandidates(requestData)[i] = ExpectedCandidates(requestData)[j]
          /\ ExpectedCandidates(requestData)[i] /= ExpectedCandidates(requestData)[i + 1]
    /\ Len(searchTerms) >= 2

----------------------------------------------------------------------------
(* calculateMarketAnalysis *)

\* Math.round(x * 100) / 100 on a price in mills: to the nearer cent
Round2(m) == ((m + 5) \div 10) * 10

\* Math.min(...prices) / Math.max(...prices)
MinPrice(items) ==
    CHOOSE p \in {items[i].price : i \in 1..Len(items)} :
        \A i \in 1..Len(items) : p <= items[i].price
MaxPriceOf(items) ==
    CHOOSE p \in {items[i].price : i \in 1..Len(items)} :
        \A i \in 1..Len(items) : p >= items[i].price

\* (num / den) < 0.3 in IEEE arithmetic, for num >= 0
VariationBelowThreshold(num, den) ==
    IF den > 0 THEN 10 * num < 3 * den
    ELSE IF den = 0 THEN FALSE      \* Infinity or NaN
    ELSE TRUE                       \* a quotient <= 0

\* soldItems.slice(0, n)
Slice(items, n) == SubSeq(items, 1, IF Len(items) < n THEN Len(items) ELSE n)

RECURSIVE SumPrices(_)
SumPrices(items) ==
    IF items = <<>> THEN 0 ELSE Head(items).price + SumPrices(Tail(items))

\* calculateMarketAnalysis averaging all prices  (mutation)
calculateMarketAnalysisMean(items) ==
    IF Len(items) = 0
    THEN [averagePrice |-> 0, recentSales |-> <<>>,
          priceRange |-> [min |-> 0, max |-> 0], confidence |-> "low"]
    ELSE [averagePrice |-> Round2(SumPrices(items) \div Len(items)),
          recentSales  |-> Slice(items, 10),
          priceRange   |-> [min |-> Round2(MinPrice(items)),
                            max |-> Round2(MaxPriceOf(items))],
          confidence   |-> IF Len(items) >= 5
                           THEN IF VariationBelowThreshold(
                                      MaxPriceOf(items) - MinPrice(items), items[1].price)
                                THEN "high" ELSE "medium"
                           ELSE IF Len(items) >= 3 THEN "medium" ELSE "low"]

\* calculateMarketAnalysis grading on the sample size alone  (mutation)
calculateMarketAnalysisSizeOnly(items) ==
    IF Len(items) = 0
    THEN [averagePrice |-> 0, recentSales |-> <<>>,
          priceRange |-> [min |-> 0, max |-> 0], confidence |-> "low"]
    ELSE [averagePrice |-> Round2(items[1].price),
          recentSales  |-> Slice(items, 10),
          priceRange   |-> [min |-> Round2(MinPrice(items)),
                            max |-> Round2(MaxPriceOf(items))],
          confidence   |-> IF Len(items) >= 5 THEN "high"
                           ELSE IF Len(items) >= 3 THEN "medium" ELSE "low"]

\* calculateMarketAnalysis grading the empty input 'medium'  (mutation)
calculateMarketAnalysisEmptyMedium(items) ==
    IF Len(items) = 0
    THEN [averagePrice |-> 0, recentSales |-> <<>>,
          priceRange |-> [min |-> 0, max |-> 0], confidence |-> "medium"]
    ELSE [averagePrice |-> Round2(items[1].price),
          recentSales  |-> Slice(items, 10),
          priceRange   |-> [min |-> Round2(MinPrice(items)),
                            max |-> Round2(MaxPriceOf(items))],
          confidence   |-> IF Len(items) >= 5
                           THEN IF VariationBelowThreshold(
                                      MaxPriceOf(items) - MinPrice(items), items[1].price)
                                THEN "high" ELSE "medium"
                           ELSE IF Len(items) >= 3 THEN "medium" ELSE "low"]

\* the price range taken over the 10 recent sales only  (mutation)
calculateMarketAnalysisRangeOfRecent(items) ==
    IF Len(items) = 0
    THEN [averagePrice |-> 0, recentSales |-> <<>>,
          priceRange |-> [min |-> 0, max |-> 0], confidence |-> "low"]
    ELSE LET mostRecentPrice == items[1].price
             minPrice == MinPrice(Slice(items, 10))
             maxPrice == MaxPriceOf(Slice(items, 10))
             confidence ==
                 IF Len(items) >= 5
                 THEN IF VariationBelowThreshold(maxPrice - minPrice, mostRecentPrice)
                      THEN "high" ELSE "medium"
                 ELSE IF Len(items) >= 3 THEN "medium" ELSE "low"
         IN  [averagePrice |-> Round2(mostRecentPrice),
              recentSales  |-> Slice(items, 10),
              priceRange   |-> [min |-> Round2(minPrice), max |-> Round2(maxPrice)],
              confidence   |-> confidence]

calculateMarketAnalysis(items) ==
    IF Len(items) = 0
    THEN [averagePrice |-> 0, recentSales |-> <<>>,
          priceRange |-> [min |-> 0, max |-> 0], confidence |-> "low"]
    ELSE LET mostRecentPrice == items[1].price
             minPrice == MinPrice(items)
             maxPrice == MaxPriceOf(items)
             confidence ==
                 IF Len(items) >= 5
                 THEN IF VariationBelowThreshold(maxPrice - minPrice, mostRecentPrice)
                      THEN "high" ELSE "medium"
                 ELSE IF Len(items) >= 3 THEN "medium" ELSE "low"
         IN  [averagePrice |-> Round2(mostRecentPrice),
              recentSales  |-> Slice(items, 10),
              priceRange   |-> [min |-> Round2(minPrice), max |-> Round2(maxPrice)],
              confidence   |-> confidence]

----------------------------------------------------------------------------
(* Inputs of calculateMarketAnalysis: sold items, every price > 0 as        *)
(* searcheBaySoldListings returns them.  No price ends in 5 mills, where    *)
(* the binary value of the decimal decides the direction of the rounding.   *)

AnalyzePrices == {98004, 100000, 129996, 130000}

SoldAt(p) ==
    [title |-> <<"Unknown Item">>, price |-> p, soldDate |-> 0,
     condition |-> "Unknown", url |-> <<"#">>]

\* the scenario of the specification: 6 sales, $100 the most recent
SixSales ==
    << SoldAt(100000), SoldAt(105000), SoldAt(98000),
       SoldAt(102000), SoldAt(99000), SoldAt(101000) >>

\* 12 sales, each with its own sold date; the cheapest and the dearest are
\* the 11th and the 12th
TwelveSales ==
    [i \in 1..12 |->
        [SoldAt(IF i = 11 THEN 98004 ELSE IF i = 12 THEN 129996 ELSE 100000)
            EXCEPT !.soldDate = 100 - i]]

AnalyzeInputs ==
    {SixSales, TwelveSales} \cup
    UNION { [1..k -> {SoldAt(p) : p \in AnalyzePrices}] : k \in 0..MaxSales }

InitAnalyze ==
    /\ pc = "analyze"
    /\ MarketIdle
    /\ MonitorIdle
    /\ requestData = NoRequest
    /\ searchTerms = <<>>
    /\ soldItems \in AnalyzeInputs
    /\ analysis = NoAnalysis

ApplyAnalyze ==
    /\ pc = "analyze"
    /\ analysis' = calculateMarketAnalysis(soldItems)
    /\ pc' = "analyzed"
    /\ UNCHANGED <<requestData, searchTerms, soldItems>>
    /\ UNCHANGED marketVars
    /\ UNCHANGED monitorVars

NextAnalyze == ApplyAnalyze

SpecAnalyze == InitAnalyze /\ [][NextAnalyze]_vars

----------------------------------------------------------------------------
(* Properties of calculateMarketAnalysis, checked under SpecAnalyze *)

PricesOf(items) == [i \in 1..Len(items) |-> items[i].price]

\* C4: for every non-empty sales sequence averagePrice is sales[0].price
\* rounded to 2 decimals (not the mean of the prices); the six sales
\* [100,105,98,102,99,101] give averagePrice 100 and priceRange {98, 105}.
C4_AveragePriceIsFirstPrice ==
    (pc = "analyzed" /\ soldItems /= <<>>) =>
        /\ analysis.averagePrice = ((soldItems[1].price + 5) \div 10) * 10
        /\ PricesOf(soldItems) = <<100000, 105000, 98000, 102000, 99000, 101000>>
              => /\ analysis.averagePrice = 100000
                 /\ analysis.priceRange = [min |-> 98000, max |-> 105000]

\* C4 witness: the six sales were analyzed; their mean is not 100
C4_Witness ==
    /\ pc = "analyzed"
    /\ PricesOf(soldItems) = <<100000, 105000, 98000, 102000, 99000, 101000>>
    /\ SumPrices(soldItems) /= 100000 * Len(soldItems)
    /\ analysis.averagePrice = 100000

\* C5: 5 or more sales: 'high' if (max - min) / sales[0].price < 0.3, else
\* 'medium'; 3 or 4 sales: 'medium'; 1 or 2 sales: 'low'.  Equal prices over
\* 5 or more sales give 'high'; fewer than 5 sales never give 'high'.
C5_ConfidencePolicy ==
    (pc = "analyzed" /\ soldItems /= <<>>) =>
        LET n  == Len(soldItems)
            ps == Range(PricesOf(soldItems))
            hi == CHOOSE p \in ps : \A q \in ps : q <= p
            lo == CHOOSE p \in ps : \A q \in ps : p <= q
        IN  /\ n >= 5 => analysis.confidence =
                           (IF 10 * (hi - lo) < 3 * soldItems[1].price
                            THEN "high" ELSE "medium")
            /\ n \in {3, 4} => analysis.confidence = "medium"
            /\ n \in {1, 2} => analysis.confidence = "low"
            /\ (n >= 5 /\ hi = lo) => analysis.confidence = "high"
            /\ n < 5 => analysis.confidence /= "high"

\* C5 witness: 5 sales whose spread is 0.3 or more of the first price were
\* graded 'medium'
C5_Witness ==
    /\ pc = "analyzed"
    /\ Len(soldItems) >= 5
    /\ \E i, j \in 1..Len(soldItems) :
          10 * (soldItems[i].price - soldItems[j].price) >= 3 * soldItems[1].price
    /\ analysis.confidence = "medium"

\* C6: analyze on an empty sales sequence returns exactly averagePrice 0,
\* recentSales empty, priceRange {min: 0, max: 0} and confidence 'low'.
C6_EmptyInput ==
    (pc = "analyzed" /\ soldItems = <<>>) =>
        analysis = [averagePrice |-> 0, recentSales |-> <<>>,
                    priceRange |-> [min |-> 0, max |-> 0], confidence |-> "low"]

\* C6 witness: the empty sequence was analyzed
C6_Witness == pc = "analyzed" /\ soldItems = <<>> /\ analysis.confidence = "low"

\* C25: recentSales is the first min(10, length) entries of the input in
\* unmodified order, and priceRange.min / priceRange.max are the minimum and
\* the maximum over the prices of all input sales (not only of the first
\* 10), rounded to 2 decimals.
C25_RecentSalesAndPriceRange ==
    (pc = "analyzed" /\ soldItems /= <<>>) =>
        LET n  == IF Len(soldItems) < 10 THEN Len(soldItems) ELSE 10
            ps == Range(PricesOf(soldItems))
            hi == CHOOSE p \in ps : \A q \in ps : q <= p
            lo == CHOOSE p \in ps : \A q \in ps : p <= q
        IN  /\ Len(analysis.recentSales) = n
            /\ \A i \in 1..n : analysis.recentSales[i] = soldItems[i]
            /\ analysis.priceRange.min = ((lo + 5) \div 10) * 10
            /\ analysis.priceRange.max = ((hi + 5) \div 10) * 10

\* C25 witness: 12 sales analyzed, the extreme prices outside the first 10
C25_Witness ==
    /\ pc = "analyzed"
    /\ Len(soldItems) = 12
    /\ Len(analysis.recentSales) = 10
    /\ \A i \in 1..10 : soldItems[i].price \notin {98004, 129996}
    /\ analysis.priceRange = [min |-> 98000, max |-> 130000]

----------------------------------------------------------------------------
(* getMockData *)

\* Date.now(), in hours
Now == 40 * 24

\* encodeURIComponent: a lone surrogate raises URIError; a space becomes %20,
\* the words (letters, digits, '-') stay
encodeURIComponent(s) ==
    IF LONE \in Range(s)
    THEN [threw |-> TRUE, value |-> <<>>]
    ELSE [threw |-> FALSE,
          value |-> [i \in 1..Len(s) |-> IF s[i] = SP THEN "%20" ELSE s[i]]]

\* title.replace(/\s+/g, ' ')
CollapseSpaces(s) ==
    LET keep == {i \in 1..Len(s) : ~(s[i] = SP /\ i > 1 /\ s[i - 1] = SP)}
        F[i \in 0..Len(s)] ==
            IF i = 0 THEN <<>>
            ELSE IF i \in keep THEN Append(F[i - 1], s[i]) ELSE F[i - 1]
    IN  F[Len(s)]

\* String.prototype.toLowerCase, atom by atom
LowerAtom(a) ==
    CASE a = "Hen on Nest" -> "hen on nest"
      [] a = "Fenton"      -> "fenton"
      [] a = "Vintage"     -> "vintage"
      [] a = "Collectible" -> "collectible"
      [] a = "Glass"       -> "glass"
      [] OTHER             -> a
toLowerCase(s) == [i \in 1..Len(s) |-> LowerAtom(s[i])]

\* ['fenton', 'fire-king', 'anchor hocking', 'pyrex', 'corning']
Brands ==
    { <<"fenton">>, <<"fire-king">>, <<"anchor", SP, "hocking">>, <<"pyrex">>,
      <<"corning">> }

\* searchTerms.find(term => brands.some(brand => term.toLowerCase().includes(brand))) || ''
FindBrandTerm(terms) ==
    LET hits == {i \in 1..Len(terms) :
                    \E b \in Brands : Includes(toLowerCase(terms[i]), b)}
    IN  IF hits = {} THEN <<>>
        ELSE terms[CHOOSE i \in hits : \A j \in hits : i <= j]

\* generateEbaySearchUrl
generateEbaySearchUrl(title) ==
    LET q == encodeURIComponent(Trim(CollapseSpaces(title)))
    IN  [threw |-> q.threw,
         value |-> <<"https://www.ebay.com/sch/i.html?_nkw=">> \o q.value
                     \o <<"&_sacat=0&LH_Sold=1&LH_Complete=1&_sop=13&rt=nc">>]

\* Math.random() in thousandths
RandomDraws == {0, 500}

\* the six draws of one getMockData call
MockDraws == [p1 : RandomDraws, p2 : RandomDraws, p3 : RandomDraws,
              d1 : RandomDraws, d2 : RandomDraws, d3 : RandomDraws]

getMockData(terms, rnd) ==
    LET primaryTerm == IF Len(terms) >= 1 /\ Truthy(terms[1]) THEN terms[1]
                       ELSE <<"collectible">>
        manufacturer == FindBrandTerm(terms)
        u1 == generateEbaySearchUrl(Tpl3(manufacturer, primaryTerm, <<"vintage">>))
        u2 == generateEbaySearchUrl(Tpl3(<<"vintage">>, primaryTerm, manufacturer))
        u3 == generateEbaySearchUrl(
                  primaryTerm \o <<SP, "collectible", SP, "glass", SP>> \o manufacturer)
        mockSoldItems ==
            << [title |-> manufacturer \o <<SP>> \o primaryTerm
                            \o <<SP, "-", SP, "Vintage", SP, "Collectible">>,
                price |-> Round2(50 * rnd.p1 + 50000),
                soldDate |-> Now - (rnd.d1 * 30 * 24) \div 1000,
                condition |-> "Excellent", url |-> u1.value],
               [title |-> Trim(<<"Vintage", SP>> \o primaryTerm \o <<SP>>
                            \o (IF Truthy(manufacturer)
                                THEN <<"by", SP>> \o manufacturer ELSE <<>>)),
                price |-> Round2(40 * rnd.p2 + 40000),
                soldDate |-> Now - (rnd.d2 * 20 * 24) \div 1000,
                condition |-> "Very Good", url |-> u2.value],
               [title |-> Trim(primaryTerm \o <<SP, "Collectible", SP, "Glass", SP>>
                            \o (IF Truthy(manufacturer)
                                THEN <<"-", SP>> \o manufacturer ELSE <<>>)),
                price |-> Round2(60 * rnd.p3 + 60000),
                soldDate |-> Now - (rnd.d3 * 15 * 24) \div 1000,
                condition |-> "Good", url |-> u3.value] >>
        relevant(item) ==
            \E i \in 1..Len(terms) :
                Includes(toLowerCase(item.title), toLowerCase(terms[i]))
        relevantItems == SelectSeq(mockSoldItems, relevant)
    IN  IF u1.threw \/ u2.threw \/ u3.threw
        THEN [threw |-> TRUE, items |-> <<>>]
        ELSE [threw |-> FALSE,
              items |-> IF Len(relevantItems) > 0 THEN relevantItems
                        ELSE Slice(mockSoldItems, 3)]

----------------------------------------------------------------------------
(* The marketplace's answer to one findCompletedItems call *)

MaxItemsPerCall == 1     \* items in one live response

\* parseFloat(item.sellingStatus[0].currentPrice?.[0]?.__value__ || '0')
parseFloat(text) ==
    CASE text = "none"   -> [nan |-> FALSE, v |-> 0]      \* absent: '0'
      [] text = "0"      -> [nan |-> FALSE, v |-> 0]
      [] text = "abc"    -> [nan |-> TRUE,  v |-> 0]
      [] text = "-5.00"  -> [nan |-> FALSE, v |-> -5000]
      [] text = "25.004" -> [nan |-> FALSE, v |-> 25004]
      [] text = "40.00"  -> [nan |-> FALSE, v |-> 40000]

RawItem(state, text, t, n) ==
    [sellingState |-> state, priceText |-> text, endTime |-> t,
     viewItemURL |-> <<"https://www.ebay.com/itm/", n>>]

RawItems ==
    { RawItem("EndedWithSales", "25.004", Now - 24, "1"),
      RawItem("EndedWithSales", "40.00", Now - 48, "2"),
      RawItem("EndedWithoutSales", "25.004", Now - 24, "3"),
      RawItem("EndedWithSales", "none", Now - 48, "4"),
      RawItem("EndedWithSales", "abc", Now - 48, "5"),
      RawItem("EndedWithSales", "-5.00", Now - 48, "6") }

\* sortOrder=EndTimeSoonest is taken to list one call's items most recent first
SortedByEndTime(items) ==
    \A i, j \in 1..Len(items) : i < j => items[i].endTime >= items[j].endTime

\* a response with six completed sales, the most recent first
FullPage ==
    [i \in 1..6 |->
        RawItem("EndedWithSales", IF i % 2 = 1 THEN "25.004" ELSE "40.00", Now - i,
                IF i <= 3 THEN "7" ELSE "8")]

UpstreamOutcomes ==
    { [kind |-> k, items |-> <<>>] : k \in {"throw", "status", "badjson", "nack"} }
    \cup
    { [kind |-> "ok", items |-> xs] :
        xs \in {ys \in UNION {[1..k -> RawItems] : k \in 0..MaxItemsPerCall} :
                    SortedByEndTime(ys)} }
    \cup
    { [kind |-> "ok", items |-> FullPage] }

\* lines 88-103 keeping the items whose sale did not complete  (mutation)
soldItemsOfAnyState(items) ==
    LET F[i \in 0..Len(items)] ==
            IF i = 0 THEN <<>>
            ELSE LET price == parseFloat(items[i].priceText)
                 IN  IF ~price.nan /\ price.v > 0
                     THEN Append(F[i - 1],
                                 [title |-> <<"Unknown Item">>, price |-> price.v,
                                  soldDate |-> items[i].endTime,
                                  condition |-> "Unknown", url |-> items[i].viewItemURL])
                     ELSE F[i - 1]
    IN  F[Len(items)]

\* lines 88-103: the sold items of one response, in the response's order
soldItemsOf(items) ==
    LET F[i \in 0..Len(items)] ==
            IF i = 0 THEN <<>>
            ELSE LET price == parseFloat(items[i].priceText)
                 IN  IF items[i].sellingState = "EndedWithSales"
                        /\ ~price.nan /\ price.v > 0
                     THEN Append(F[i - 1],
                                 [title |-> <<"Unknown Item">>, price |-> price.v,
                                  soldDate |-> items[i].endTime,
                                  condition |-> "Unknown", url |-> items[i].viewItemURL])
                     ELSE F[i - 1]
    IN  F[Len(items)]

----------------------------------------------------------------------------
(* POST /market-analysis: the handler and searcheBaySoldListings *)

\* the loop over every search term  (mutation of primarySearchTerms)
primarySearchTermsAll == searchTerms

\* const primarySearchTerms = searchTerms.slice(0, 3)
primarySearchTerms == Slice(searchTerms, 3)

\* results.slice(0, 10) without the cap  (mutation of liveResult)
liveResultUncapped(rs) == rs

\* line 114, the live branch: results.slice(0, 10)
liveResult(rs) == Slice(rs, 10)

\* an entry of the log of live calls and delays: the term's index, how the
\* call ended and the sold items it yielded
Call(op, term, kind, got) == [op |-> op, term |-> term, kind |-> kind, got |-> got]

Body(kind, data) == [kind |-> kind, data |-> data]

MarketObjects ==
    { [itemName |-> <<>>, category |-> "jadite", manufacturer |-> <<>>, pattern |-> <<>>],
      [itemName |-> <<"Hen on Nest">>, category |-> "", manufacturer |-> <<>>,
       pattern |-> <<>>],
      HenOnNest,
      [itemName |-> <<SP>>, category |-> "milk_glass", manufacturer |-> <<>>,
       pattern |-> <<>>],
      [itemName |-> <<"Hen on Nest">>, category |-> "blue_glass", manufacturer |-> <<>>,
       pattern |-> <<>>],
      [itemName |-> <<LONE>>, category |-> "jadite", manufacturer |-> <<>>,
       pattern |-> <<>>] }

HttpRequests ==
    { [method |-> m, body |-> Body("none", NoRequest)] : m \in {"OPTIONS", "GET"} }
    \cup { [method |-> "POST", body |-> Body(k, NoRequest)] : k \in {"malformed", "null"} }
    \cup { [method |-> "POST", body |-> Body("object", o)] : o \in MarketObjects }

InitMarket ==
    /\ MonitorIdle
    /\ pc = "request"
    /\ req \in HttpRequests
    /\ appId \in BOOLEAN
    /\ requestData = NoRequest
    /\ searchTerms = <<>>
    /\ termIdx = 0
    /\ results = <<>>
    /\ calls = <<>>
    /\ searchOutcome = "none"
    /\ soldItems = <<>>
    /\ analysis = NoAnalysis
    /\ response = NoResponse

\* lines 244-276: method check, req.json(), validation, generateSearchTerms
HandleRequest ==
    /\ UNCHANGED monitorVars
    /\ pc = "request"
    /\ UNCHANGED <<req, appId, termIdx, results, calls, searchOutcome, soldItems, analysis>>
    /\ IF req.method = "OPTIONS"
       THEN /\ response' = [status |-> 200]
            /\ pc' = "responded"
            /\ UNCHANGED <<requestData, searchTerms>>
       ELSE IF req.method /= "POST"
       THEN /\ response' = [status |-> 405]
            /\ pc' = "responded"
            /\ UNCHANGED <<requestData, searchTerms>>
       ELSE IF req.body.kind \in {"malformed", "null"}
       THEN \* req.json() rejects, or reading a field of null raises: the catch
            /\ response' = [status |-> 500]
            /\ pc' = "responded"
            /\ UNCHANGED <<requestData, searchTerms>>
       ELSE IF ~Truthy(req.body.data.itemName) \/ req.body.data.category = ""
       THEN /\ response' = [status |-> 400]
            /\ pc' = "responded"
            /\ requestData' = req.body.data
            /\ UNCHANGED searchTerms
       ELSE /\ requestData' = req.body.data
            /\ searchTerms' = generateSearchTerms(req.body.data)
            /\ pc' = "search"
            /\ UNCHANGED response

\* return getMockData(searchTerms), on line 45, 114 or 118; when it raises
\* inside the try, the catch of line 116 calls it again and that call raises
\* out of searcheBaySoldListings, into the handler's catch (500)
ReturnMockData ==
    \E rnd \in MockDraws :
        LET m == getMockData(searchTerms, rnd)
        IN  IF m.threw
            THEN /\ searchOutcome' = "raised"
                 /\ response' = [status |-> 500]
                 /\ pc' = "responded"
                 /\ UNCHANGED soldItems
            ELSE /\ searchOutcome' = "returned"
                 /\ soldItems' = m.items
                 /\ pc' = "analysis"
                 /\ UNCHANGED response

\* lines 39-51: entering searcheBaySoldListings
SearchStart ==
    /\ UNCHANGED monitorVars
    /\ pc = "search"
    /\ UNCHANGED <<req, appId, requestData, searchTerms, calls, analysis>>
    /\ IF ~appId
       THEN ReturnMockData /\ UNCHANGED <<termIdx, results>>
       ELSE /\ termIdx' = 1
            /\ results' = <<>>
            /\ pc' = "loop"
            /\ UNCHANGED <<searchOutcome, soldItems, response>>

\* lines 53-104 and 108-110: one iteration up to the delay
FetchTerm ==
    /\ UNCHANGED monitorVars
    /\ pc = "loop"
    /\ termIdx <= Len(primarySearchTerms)
    /\ UNCHANGED <<req, appId, requestData, searchTerms, searchOutcome, soldItems,
                   analysis, response>>
    /\ IF encodeURIComponent(primarySearchTerms[termIdx]).threw
       THEN \* URIError before the fetch: the inner catch, next term
            /\ termIdx' = termIdx + 1
            /\ UNCHANGED <<pc, results, calls>>
       ELSE \E out \in UpstreamOutcomes :
              /\ calls' = Append(calls,
                     Call("fetch", termIdx, out.kind,
                          IF out.kind = "ok" THEN soldItemsOf(out.items) ELSE <<>>))
              /\ IF out.kind \in {"throw", "badjson", "status"}
                 THEN \* the inner catch, or continue: next term at once
                      /\ termIdx' = termIdx + 1
                      /\ UNCHANGED <<pc, results>>
                 ELSE /\ results' = results \o
                            (IF out.kind = "ok" THEN soldItemsOf(out.items) ELSE <<>>)
                      /\ pc' = "delay"
                      /\ UNCHANGED termIdx

\* line 107: await new Promise(resolve => setTimeout(resolve, 100))
Delay ==
    /\ UNCHANGED monitorVars
    /\ pc = "delay"
    /\ calls' = Append(calls, Call("delay", termIdx, "delay", <<>>))
    /\ termIdx' = termIdx + 1
    /\ pc' = "loop"
    /\ UNCHANGED <<req, appId, requestData, searchTerms, results, searchOutcome,
                   soldItems, analysis, response>>

\* line 114: return results.length > 0 ? results.slice(0, 10) : getMockData(searchTerms)
SearchReturn ==
    /\ UNCHANGED monitorVars
    /\ pc = "loop"
    /\ termIdx > Len(primarySearchTerms)
    /\ UNCHANGED <<req, appId, requestData, searchTerms, termIdx, results, calls, analysis>>
    /\ IF Len(results) > 0
       THEN /\ soldItems' = liveResult(results)
            /\ searchOutcome' = "returned"
            /\ pc' = "analysis"
            /\ UNCHANGED response
       ELSE ReturnMockData

\* lines 284-297: calculateMarketAnalysis and the 200 response
Respond ==
    /\ UNCHANGED monitorVars
    /\ pc = "analysis"
    /\ analysis' = calculateMarketAnalysis(soldItems)
    /\ response' = [status |-> 200]
    /\ pc' = "responded"
    /\ UNCHANGED <<req, appId, requestData, searchTerms, termIdx, results, calls,
                   searchOutcome, soldItems>>

NextMarket ==
    \/ HandleRequest
    \/ SearchStart
    \/ FetchTerm
    \/ Delay
    \/ SearchReturn
    \/ Respond

SpecMarket == InitMarket /\ [][NextMarket]_vars

----------------------------------------------------------------------------
(* Properties of POST /market-analysis, checked under SpecMarket *)

\* C1: ListingClient never fails hard: whatever the upstream outcome
\* (credential absent, non-2xx status, unparsable payload, acknowledgement
\* other than Success, exception of the fetch), the search returns a sequence
\* of listings to its caller and never raises an error.
C1_SearchNeverRaises == searchOutcome /= "raised"

\* C10: the recentSales of every MarketEstimate returned by POST
\* /market-analysis are ordered most-recent-first by sold date, so that
\* sales[0] is the most recent sale among the listings analyzed.
C10_RecentSalesMostRecentFirst ==
    (pc = "responded" /\ response.status = 200 /\ req.method = "POST") =>
        \A i, j \in 1..Len(analysis.recentSales) :
            i < j => analysis.recentSales[i].soldDate >= analysis.recentSales[j].soldDate

IsFetch(c) == c.op = "fetch"

\* the live calls issued so far, in the order they were issued
Fetches == SelectSeq(calls, IsFetch)

\* the sold items the live calls yielded, by term: first those of term 1, ...
RECURSIVE LiveOfTerms(_)
LiveOfTerms(t) ==
    IF t = 0 THEN <<>>
    ELSE LET F[i \in 0..Len(Fetches)] ==
                 IF i = 0 THEN <<>>
                 ELSE IF Fetches[i].term = t THEN F[i - 1] \o Fetches[i].got
                      ELSE F[i - 1]
         IN  LiveOfTerms(t - 1) \o F[Len(Fetches)]

LiveRecords == LiveOfTerms(Len(searchTerms))

\* a record fabricated by getMockData: its url is an eBay search url (line 126)
IsSynthetic(item) == Head(item.url) = "https://www.ebay.com/sch/i.html?_nkw="

\* a record parsed from a live response: one of the records the calls yielded
IsLive(item) == \E i \in 1..Len(Fetches) : item \in Range(Fetches[i].got)

\* C12: searchCompleted returns either live results only (at least 1 and at
\* most 10 records, accumulated over the queried terms in term order) or
\* synthetic results only; it falls back to synthetic data exactly when no
\* queried term produced a live record, and never mixes the two.  A failure
\* of one term does not discard the live records of the other terms.
C12_LiveOrSyntheticNeverMixed ==
    searchOutcome = "returned" =>
        IF LiveRecords /= <<>>
        THEN /\ soldItems = Slice(LiveRecords, 10)
             /\ Len(soldItems) \in 1..10
             /\ \A i \in 1..Len(soldItems) :
                    IsLive(soldItems[i]) /\ ~IsSynthetic(soldItems[i])
        ELSE /\ soldItems /= <<>>
             /\ \A i \in 1..Len(soldItems) :
                    IsSynthetic(soldItems[i]) /\ ~IsLive(soldItems[i])

\* two terms answered with full pages, one term failed: 12 live records, 10 returned
C12_Witness ==
    /\ searchOutcome = "returned"
    /\ Len(LiveRecords) > 10
    /\ Len(soldItems) = 10
    /\ \E i \in 1..Len(Fetches) : Fetches[i].kind \in {"throw", "status", "badjson"}

\* C16: POST /market-analysis with itemName or category missing or empty
\* responds 400 and issues no marketplace call; every request body (of
\* well-formed JSON) that does not supply both fields is answered with 400.
C16_MissingFieldsAnswered400 ==
    (/\ pc = "responded"
     /\ req.method = "POST"
     /\ req.body.kind /= "malformed"
     /\ \/ req.body.kind /= "object"
        \/ ~Truthy(req.body.data.itemName)
        \/ req.body.data.category = "") =>
        /\ response.status = 400
        /\ calls = <<>>

\* C19: between any two consecutive live calls of one invocation the pacing
\* delay elapses, whatever the outcome of the earlier call: in the log of
\* calls and delays a live call is never directly followed by a live call.
C19_DelayBetweenLiveCalls ==
    \A i \in 1..(Len(calls) - 1) :
        calls[i].op = "fetch" => calls[i + 1].op = "delay"

ValidRequest ==
    /\ req.method = "POST"
    /\ req.body.kind = "object"
    /\ Truthy(req.body.data.itemName)
    /\ req.body.data.category /= ""

\* C29: whenever POST /market-analysis with valid itemName and category is
\* served from the synthetic fallback (no credential configured, or no term
\* produced a live record), the response is 200 with exactly 3 recentSales
\* and confidence 'medium'; 'high' and 'low' are reachable only with live
\* data, and a valid request is never answered 500.
C29_FallbackAnswersThreeSalesMedium ==
    (pc = "responded" /\ ValidRequest) =>
        /\ response.status = 200
        /\ LiveRecords = <<>> =>
              /\ Len(analysis.recentSales) = 3
              /\ analysis.confidence = "medium"
        /\ analysis.confidence \in {"high", "low"} => LiveRecords /= <<>>

\* the records searcheBaySoldListings hands to the analysis all have a price > 0,
\* and the live ones come from completed sales only
SoldItemsPricesPositive ==
    /\ \A i \in 1..Len(soldItems) : soldItems[i].price > 0
    /\ \A i \in 1..Len(Fetches) : \A j \in 1..Len(Fetches[i].got) :
          Fetches[i].got[j].price > 0

----------------------------------------------------------------------------
(* ebay-monitor: searchEbayListings and getMockEbayData *)

MaxListingsPerSearch == 1    \* items in one live findItemsByKeywords response
MaxRequests          == 2    \* ebay-monitor requests in one behaviour
MaxStoreFailures     == 1    \* store calls that fail in one behaviour

\* an item of findItemsByKeywordsResponse: its price text and its viewItemURL
\* (<<>> when the field is absent)
RawListing(text, url) == [priceText |-> text, viewItemURL |-> url]

RawListings ==
    { RawListing("25.004", <<"https://www.ebay.com/itm/", "1">>),
      RawListing("40.00", <<>>),
      RawListing("none", <<"https://www.ebay.com/itm/", "2">>) }

\* lines 71-84: the listings of one response, price > 0 only
listingsOf(items) ==
    LET F[i \in 0..Len(items)] ==
            IF i = 0 THEN <<>>
            ELSE LET price == parseFloat(items[i].priceText)
                 IN  IF ~price.nan /\ price.v > 0
                     THEN Append(F[i - 1],
                                 [title |-> <<"Unknown Item">>, price |-> price.v,
                                  url |-> IF Truthy(items[i].viewItemURL)
                                          THEN items[i].viewItemURL ELSE <<"#">>])
                     ELSE F[i - 1]
    IN  F[Len(items)]

MonitorOutcomes ==
    { [kind |-> k, items |-> <<>>] : k \in {"throw", "status", "badjson", "nack"} }
    \cup
    { [kind |-> "ok", items |-> xs] :
        xs \in UNION {[1..k -> RawListings] : k \in 0..MaxListingsPerSearch} }

\* the two Math.random() price draws of getMockEbayData, in thousandths
MockEbayDraws == [p1 : {0, 999}, p2 : {0, 999}]

\* getMockEbayData; maxPrice 0 stands for an absent (null) desired_price_max
getMockEbayData(searchTerm, maxPrice, rnd) ==
    LET cap       == (maxPrice * 8) \div 10
        basePrice == IF maxPrice /= 0 THEN (IF cap < 50000 THEN cap ELSE 50000)
                     ELSE 50000
        q   == encodeURIComponent(searchTerm)
        url == <<"https://www.ebay.com/sch/i.html?_nkw=">> \o q.value
        two == << [title |-> searchTerm \o <<SP, "-", SP, "Vintage", SP, "Collectible">>,
                   price |-> Round2((rnd.p1 * basePrice) \div 1000 + (basePrice * 5) \div 10),
                   url   |-> url],
                  [title |-> <<"Rare", SP>> \o searchTerm
                               \o <<SP, "Collection", SP, "Item">>,
                   price |-> Round2((rnd.p2 * basePrice) \div 1000 + (basePrice * 3) \div 10),
                   url   |-> url] >>
        affordable(item) == maxPrice = 0 \/ item.price <= maxPrice
    IN  [threw |-> q.threw,
         items |-> IF q.threw THEN <<>> ELSE SelectSeq(two, affordable)]

\* searchEbayListings: the live listings when the call succeeds with items,
\* getMockEbayData otherwise (also from the catch, where an error of
\* getMockEbayData leaves the function)
\* The result also tells whether it is the generator's (synthetic) and how
\* many times fetch was called (fetches).
searchEbayListings(searchTerm, maxPrice, configured, out, rnd) ==
    LET called == configured /\ ~encodeURIComponent(searchTerm).threw
        live   == called /\ out.kind = "ok"
        mock   == getMockEbayData(searchTerm, maxPrice, rnd)
    IN  [threw     |-> IF live THEN FALSE ELSE mock.threw,
         items     |-> IF live THEN listingsOf(out.items) ELSE mock.items,
         synthetic |-> ~live,
         fetches   |-> IF called THEN 1 ELSE 0]

----------------------------------------------------------------------------
(* ebay-monitor: the tables *)

ItemIds == {"w1", "w2"}

\* ebay_search_term IS NULL
NullTerm == <<"<null>">>

WishlistRow(term, status, max) ==
    [ebay_search_term |-> term, status |-> status, desired_price_max |-> max,
     last_checked_at |-> 0, updated_at |-> 0]

Table(a, b) == [id \in ItemIds |-> IF id = "w1" THEN a ELSE b]

WishlistTables ==
    { Table(WishlistRow(<<"Hen on Nest">>, "active", 0),
            WishlistRow(<<"Fenton">>, "active", 20000)),
      Table(WishlistRow(<<"Hen on Nest">>, "active", 0),
            WishlistRow(<<"Fenton">>, "paused", 0)),
      Table(WishlistRow(<<SP>>, "active", 0),
            WishlistRow(NullTerm, "active", 0)),
      Table(WishlistRow(<<"Hen on Nest">>, "active", 20000),
            WishlistRow(<<>>, "active", 0)),
      Table(WishlistRow(<<LONE>>, "active", 0),
            WishlistRow(<<"Fenton">>, "active", 20000)),
      Table(WishlistRow(<<"Fenton">>, "active", 10),
            WishlistRow(<<"Hen on Nest">>, "paused", 0)) }

\* the skip without trim()  (mutation of BlankTerm)
BlankTermNoTrim(term) == term = NullTerm \/ ~Truthy(term)

\* !item.ebay_search_term?.trim()
BlankTerm(term) == term = NullTerm \/ ~Truthy(Trim(term))

\* a lookup that never finds a row  (mutation of Matches)
MatchesNone(rows, id, url) == {}

\* the rows of found_listings with this item and url
Matches(rows, id, url) ==
    {i \in 1..Len(rows) : rows[i].wishlist_item_id = id /\ rows[i].listing_url = url}

\* the outcome of one store call: a result, or an error object with no data
StoreOutcomes == {"ok", "error"}

----------------------------------------------------------------------------
(* POST /ebay-monitor: the handler and processWishlistItem *)

Procs == {1, 2}

MonitorRequests ==
    { [method |-> m, kind |-> "none", wishlistItemId |-> ""] : m \in {"OPTIONS", "GET"} }
    \cup { [method |-> "POST", kind |-> k, wishlistItemId |-> ""] :
             k \in {"malformed", "null"} }
    \cup { [method |-> "POST", kind |-> "object", wishlistItemId |-> id] :
             id \in {"", "w1", "w2", "not-found-id"} }

NoMonitorResponse ==
    [status |-> 0, itemsProcessed |-> 0, totalNewListings |-> 0, results |-> <<>>]

IdleMon ==
    [pc |-> "idle",
     req |-> [method |-> "", kind |-> "none", wishlistItemId |-> ""],
     now |-> 0,
     itemsToProcess |-> <<>>, pos |-> 0,
     listings |-> <<>>, idx |-> 0, newListingsCount |-> 0, rowsBefore |-> <<>>,
     totalNewListings |-> 0, results |-> <<>>,
     response |-> NoMonitorResponse,
     \* the record of the request:
     before |-> [items |-> <<>>, found |-> <<>>],   \* the tables when it arrived
     selection |-> "none",          \* outcome of the selection query
     lookup |-> "none",             \* outcome of the pending existence lookup
     insertErrors |-> 0,            \* failed inserts of the current run
     started |-> <<>>,              \* items processWishlistItem was called for
     searched |-> <<>>,             \* the calls of searchEbayListings
     outcomes |-> <<>>]             \* how each processWishlistItem call ended

\* the batch selection without the status filter  (mutation of ActiveItems)
ActiveItemsAnyStatus ==
    LET sel == {id \in ItemIds :
                  /\ wishlist_items[id].ebay_search_term /= NullTerm
                  /\ wishlist_items[id].ebay_search_term /= <<>>}
    IN  IF "w1" \in sel
        THEN (IF "w2" \in sel THEN <<"w1", "w2">> ELSE <<"w1">>)
        ELSE (IF "w2" \in sel THEN <<"w2">> ELSE <<>>)

\* select('*').eq('status', 'active').not(term is null).not(term eq ''), by id
ActiveItems ==
    LET sel == {id \in ItemIds :
                  /\ wishlist_items[id].status = "active"
                  /\ wishlist_items[id].ebay_search_term /= NullTerm
                  /\ wishlist_items[id].ebay_search_term /= <<>>}
    IN  IF "w1" \in sel
        THEN (IF "w2" \in sel THEN <<"w1", "w2">> ELSE <<"w1">>)
        ELSE (IF "w2" \in sel THEN <<"w2">> ELSE <<>>)

InitMonitor ==
    /\ pc = "monitor"
    /\ MarketIdle
    /\ requestData = NoRequest
    /\ searchTerms = <<>>
    /\ soldItems = <<>>
    /\ analysis = NoAnalysis
    /\ wishlist_items \in WishlistTables
    /\ found_listings = <<>>
    /\ monAppId \in BOOLEAN
    /\ mon = [p \in Procs |-> IdleMon]
    /\ served = 0
    /\ failures = 0
    /\ runs = <<>>

MayFail(o) == o = "ok" \/ failures < MaxStoreFailures

\* a body that is not JSON rejected like an unknown id  (mutation of wishlistItemIdOf)
wishlistItemIdOfStrict(r) ==
    IF r.kind = "object" THEN r.wishlistItemId ELSE "not-found-id"

\* line 212 and 216: requestData.wishlistItemId, requestData being {} when
\* req.json() rejects
wishlistItemIdOf(r) == IF r.kind = "object" THEN r.wishlistItemId ELSE ""

\* the unknown id answered like an empty batch  (mutation of NotFound)
NotFoundAsEmptyBatch(m) == [m EXCEPT !.pc = "responded", !.response.status = 200]

\* lines 224-232: the 404 response
NotFound(m) == [m EXCEPT !.pc = "responded", !.response.status = 404]

\* single-item mode restricted to active items  (mutation of SingleFound)
SingleFoundActiveOnly(o, id) ==
    o = "ok" /\ id \in ItemIds /\ wishlist_items[id].status = "active"

\* lines 218-224: .eq('id', ...).single() returns the row and no error
SingleFound(o, id) == o = "ok" /\ id \in ItemIds

\* lines 188-256: method check, req.json().catch(() => ({})), item selection
HandleMonitorRequest(p) ==
    /\ UNCHANGED analysisVars
    /\ mon[p].pc \in {"idle", "responded"}
    /\ served < MaxRequests
    /\ served' = served + 1
    /\ UNCHANGED <<wishlist_items, found_listings, monAppId, runs>>
    /\ \E r \in MonitorRequests, o \in StoreOutcomes :
         LET fresh == [IdleMon EXCEPT !.req = r, !.now = served + 1,
                                      !.before = [items |-> wishlist_items,
                                                  found |-> found_listings]]
             id    == wishlistItemIdOf(r)
         IN  IF r.method = "OPTIONS"
             THEN /\ o = "ok"
                  /\ mon' = [mon EXCEPT ![p] =
                        [fresh EXCEPT !.pc = "responded", !.response.status = 200]]
                  /\ UNCHANGED failures
             ELSE IF r.method /= "POST"
             THEN /\ o = "ok"
                  /\ mon' = [mon EXCEPT ![p] =
                        [fresh EXCEPT !.pc = "responded", !.response.status = 405]]
                  /\ UNCHANGED failures
             ELSE IF r.kind = "null"
             THEN \* reading wishlistItemId of null raises: the catch of line 292
                  /\ o = "ok"
                  /\ mon' = [mon EXCEPT ![p] =
                        [fresh EXCEPT !.pc = "responded", !.response.status = 500]]
                  /\ UNCHANGED failures
             ELSE /\ MayFail(o)
                  /\ failures' = IF o = "error" THEN failures + 1 ELSE failures
                  /\ IF id /= ""
                     THEN IF ~SingleFound(o, id)
                          THEN mon' = [mon EXCEPT ![p] =
                                 NotFound([fresh EXCEPT !.selection =
                                     IF o = "error" THEN "error" ELSE "no row"])]
                          ELSE mon' = [mon EXCEPT ![p] =
                                 [fresh EXCEPT !.pc = "selected", !.pos = 1,
                                               !.selection = "ok",
                                               !.itemsToProcess = <<id>>]]
                     ELSE IF o = "error"
                          THEN mon' = [mon EXCEPT ![p] =
                                 [fresh EXCEPT !.pc = "responded", !.selection = "error",
                                               !.response.status = 500]]
                          ELSE mon' = [mon EXCEPT ![p] =
                                 [fresh EXCEPT !.pc = "selected", !.pos = 1,
                                               !.selection = "ok",
                                               !.itemsToProcess = ActiveItems]]

\* the loop body without totalNewListings += newListingsCount  (mutation of Returned)
ReturnedNoTotal(m, count) ==
    [m EXCEPT !.pc = "selected",
              !.pos = m.pos + 1,
              !.results = Append(m.results,
                                 [itemId |-> m.itemsToProcess[m.pos],
                                  newListingsFound |-> count])]

\* what the handler does with the count processWishlistItem returned (lines 264-271)
Returned(m, count) ==
    [m EXCEPT !.pc = "selected",
              !.pos = m.pos + 1,
              !.totalNewListings = m.totalNewListings + count,
              !.results = Append(m.results,
                                 [itemId |-> m.itemsToProcess[m.pos],
                                  newListingsFound |-> count])]

\* the return of processWishlistItem, with how the call ended: "skipped"
\* (line 123), "raised" (line 183), "updated" or "update failed" (line 179)
Finished(m, count, outcome) ==
    [Returned(m, count) EXCEPT !.outcomes = Append(m.outcomes, outcome)]

\* lines 120-135: processWishlistItem up to the result of searchEbayListings
ProcessItem(p) ==
    /\ UNCHANGED analysisVars
    /\ mon[p].pc = "selected"
    /\ mon[p].pos <= Len(mon[p].itemsToProcess)
    /\ UNCHANGED <<wishlist_items, found_listings, monAppId, served, failures, runs>>
    /\ LET id  == mon[p].itemsToProcess[mon[p].pos]
           row == wishlist_items[id]
           m   == [mon[p] EXCEPT !.started = Append(@, id)]
       IN  IF BlankTerm(row.ebay_search_term)
           THEN mon' = [mon EXCEPT ![p] = Finished(m, 0, "skipped")]
           ELSE \E out \in MonitorOutcomes, rnd \in MockEbayDraws :
                  LET r == searchEbayListings(row.ebay_search_term, row.desired_price_max,
                                              monAppId, out, rnd)
                      n == [m EXCEPT !.searched =
                               Append(@, [item |-> id, synthetic |-> r.synthetic,
                                          fetches |-> r.fetches, threw |-> r.threw,
                                          count |-> Len(r.items)])]
                  IN  IF r.threw
                      THEN mon' = [mon EXCEPT ![p] = Finished(n, 0, "raised")]
                      ELSE mon' = [mon EXCEPT ![p] =
                             [n EXCEPT !.pc = "lookup", !.listings = r.items,
                                       !.idx = 1, !.newListingsCount = 0,
                                       !.lookup = "none", !.insertErrors = 0,
                                       !.rowsBefore = found_listings]]

\* what .single() found: an error, no row, one row or several rows; data is
\* the row in the third case only
LookupResult(o, id, url) ==
    IF o = "error" THEN "error"
    ELSE LET n == Cardinality(Matches(found_listings, id, url))
         IN  IF n = 0 THEN "absent" ELSE IF n = 1 THEN "one" ELSE "many"

\* the lookup's error checked, the listing skipped  (mutation of Lookup)
LookupSkipOnError(p) ==
    /\ UNCHANGED analysisVars
    /\ mon[p].pc = "lookup"
    /\ mon[p].idx <= Len(mon[p].listings)
    /\ UNCHANGED <<wishlist_items, found_listings, monAppId, served, runs>>
    /\ \E o \in StoreOutcomes :
         LET id  == mon[p].itemsToProcess[mon[p].pos]
             url == mon[p].listings[mon[p].idx].url
             res == LookupResult(o, id, url)
         IN  /\ MayFail(o)
             /\ failures' = IF o = "error" THEN failures + 1 ELSE failures
             /\ IF res \in {"one", "error"}
                THEN mon' = [mon EXCEPT ![p].idx = mon[p].idx + 1,
                                        ![p].lookup = res]
                ELSE mon' = [mon EXCEPT ![p].pc = "insert", ![p].lookup = res]

\* lines 137-146: the existence lookup, .single(); only its data is read
Lookup(p) ==
    /\ UNCHANGED analysisVars
    /\ mon[p].pc = "lookup"
    /\ mon[p].idx <= Len(mon[p].listings)
    /\ UNCHANGED <<wishlist_items, found_listings, monAppId, served, runs>>
    /\ \E o \in StoreOutcomes :
         LET id  == mon[p].itemsToProcess[mon[p].pos]
             url == mon[p].listings[mon[p].idx].url
             res == LookupResult(o, id, url)
             existingListing == res = "one"
         IN  /\ MayFail(o)
             /\ failures' = IF o = "error" THEN failures + 1 ELSE failures
             /\ IF existingListing
                THEN mon' = [mon EXCEPT ![p].idx = mon[p].idx + 1,
                                        ![p].lookup = res]
                ELSE mon' = [mon EXCEPT ![p].pc = "insert", ![p].lookup = res]

\* the insert with newListingsCount++ outside the else  (mutation of Insert)
InsertCountingFailures(p) ==
    /\ UNCHANGED analysisVars
    /\ mon[p].pc = "insert"
    /\ UNCHANGED <<wishlist_items, monAppId, served, runs>>
    /\ \E o \in StoreOutcomes :
         LET id      == mon[p].itemsToProcess[mon[p].pos]
             listing == mon[p].listings[mon[p].idx]
         IN  /\ MayFail(o)
             /\ failures' = IF o = "error" THEN failures + 1 ELSE failures
             /\ mon' = [mon EXCEPT ![p].pc = "lookup",
                                   ![p].idx = mon[p].idx + 1,
                                   ![p].lookup = "none",
                                   ![p].insertErrors =
                                       IF o = "ok" THEN @ ELSE @ + 1,
                                   ![p].newListingsCount =
                                       mon[p].newListingsCount + 1]
             /\ IF o = "ok"
                THEN found_listings' = Append(found_listings,
                           [wishlist_item_id |-> id, platform |-> "ebay",
                            listing_title |-> listing.title,
                            listing_price |-> listing.price,
                            listing_url |-> listing.url,
                            found_at |-> mon[p].now, notified |-> FALSE])
                ELSE UNCHANGED found_listings

\* lines 147-167: the insert; an insertError is logged, a success counted
Insert(p) ==
    /\ UNCHANGED analysisVars
    /\ mon[p].pc = "insert"
    /\ UNCHANGED <<wishlist_items, monAppId, served, runs>>
    /\ \E o \in StoreOutcomes :
         LET id      == mon[p].itemsToProcess[mon[p].pos]
             listing == mon[p].listings[mon[p].idx]
         IN  /\ MayFail(o)
             /\ failures' = IF o = "error" THEN failures + 1 ELSE failures
             /\ IF o = "ok"
                THEN /\ found_listings' = Append(found_listings,
                           [wishlist_item_id |-> id, platform |-> "ebay",
                            listing_title |-> listing.title,
                            listing_price |-> listing.price,
                            listing_url |-> listing.url,
                            found_at |-> mon[p].now, notified |-> FALSE])
                     /\ mon' = [mon EXCEPT ![p].pc = "lookup",
                                           ![p].idx = mon[p].idx + 1,
                                           ![p].lookup = "none",
                                           ![p].newListingsCount =
                                               mon[p].newListingsCount + 1]
                ELSE /\ UNCHANGED found_listings
                     /\ mon' = [mon EXCEPT ![p].pc = "lookup",
                                           ![p].idx = mon[p].idx + 1,
                                           ![p].lookup = "none",
                                           ![p].insertErrors = @ + 1]

UrlsOf(listings) == {listings[i].url : i \in 1..Len(listings)}

LatestTwo(rs) == IF Len(rs) > 2 THEN SubSeq(rs, Len(rs) - 1, Len(rs)) ELSE rs

\* the update without .eq('id', item.id)  (mutation of UpdateChecked)
UpdateCheckedAllItems(p) ==
    /\ UNCHANGED analysisVars
    /\ mon[p].pc = "lookup"
    /\ mon[p].idx > Len(mon[p].listings)
    /\ UNCHANGED <<found_listings, monAppId, served>>
    /\ \E o \in StoreOutcomes :
         LET id == mon[p].itemsToProcess[mon[p].pos]
         IN  /\ MayFail(o)
             /\ failures' = IF o = "error" THEN failures + 1 ELSE failures
             /\ wishlist_items' =
                    IF o = "ok"
                    THEN [i \in ItemIds |->
                            [wishlist_items[i] EXCEPT !.last_checked_at = mon[p].now,
                                                      !.updated_at = mon[p].now]]
                    ELSE wishlist_items
             /\ mon' = [mon EXCEPT ![p] =
                    Finished(mon[p], mon[p].newListingsCount,
                             IF o = "ok" THEN "updated" ELSE "update failed")]
             /\ runs' = LatestTwo(Append(runs,
                            [item |-> id, urls |-> UrlsOf(mon[p].listings),
                             synthetic |-> mon[p].searched[Len(mon[p].searched)].synthetic,
                             insertErrors |-> mon[p].insertErrors,
                             count |-> mon[p].newListingsCount,
                             before |-> mon[p].rowsBefore, after |-> found_listings]))

\* lines 170-179: the update of last_checked_at / updated_at (its result is
\* not read) and the return of newListingsCount
UpdateChecked(p) ==
    /\ UNCHANGED analysisVars
    /\ mon[p].pc = "lookup"
    /\ mon[p].idx > Len(mon[p].listings)
    /\ UNCHANGED <<found_listings, monAppId, served>>
    /\ \E o \in StoreOutcomes :
         LET id == mon[p].itemsToProcess[mon[p].pos]
         IN  /\ MayFail(o)
             /\ failures' = IF o = "error" THEN failures + 1 ELSE failures
             /\ wishlist_items' =
                    IF o = "ok"
                    THEN [wishlist_items EXCEPT ![id].last_checked_at = mon[p].now,
                                                ![id].updated_at = mon[p].now]
                    ELSE wishlist_items
             /\ mon' = [mon EXCEPT ![p] =
                    Finished(mon[p], mon[p].newListingsCount,
                             IF o = "ok" THEN "updated" ELSE "update failed")]
             /\ runs' = LatestTwo(Append(runs,
                            [item |-> id, urls |-> UrlsOf(mon[p].listings),
                             synthetic |-> mon[p].searched[Len(mon[p].searched)].synthetic,
                             insertErrors |-> mon[p].insertErrors,
                             count |-> mon[p].newListingsCount,
                             before |-> mon[p].rowsBefore, after |-> found_listings]))

\* lines 274-290: the 200 response
RespondMonitor(p) ==
    /\ UNCHANGED analysisVars
    /\ mon[p].pc = "selected"
    /\ mon[p].pos > Len(mon[p].itemsToProcess)
    /\ mon' = [mon EXCEPT ![p].pc = "responded",
                          ![p].response =
                              [status |-> 200,
                               itemsProcessed |-> Len(mon[p].itemsToProcess),
                               totalNewListings |-> mon[p].totalNewListings,
                               results |-> mon[p].results]]
    /\ UNCHANGED <<wishlist_items, found_listings, monAppId, served, failures, runs>>

\* one request at a time: the requests are served by one invocation after another
NextMonitor ==
    \/ HandleMonitorRequest(1)
    \/ ProcessItem(1)
    \/ Lookup(1)
    \/ Insert(1)
    \/ UpdateChecked(1)
    \/ RespondMonitor(1)

SpecMonitor == InitMonitor /\ [][NextMonitor]_vars

----------------------------------------------------------------------------
(* Properties of processWishlistItem, checked under SpecMonitor *)

\* C2: after any sequence of processOne runs executed one at a time, the
\* store holds at most one FoundListing row per (wishlistItemId, listingUrl)
\* pair, also when one search result lists the same url several times.
C2_OneRowPerItemAndUrl ==
    \A i, j \in 1..Len(found_listings) :
        (/\ found_listings[i].wishlist_item_id = found_listings[j].wishlist_item_id
         /\ found_listings[i].listing_url = found_listings[j].listing_url) => i = j

\* C3: when processOne runs twice in succession on the same item and the
\* search returns the same set of listing urls both times, the second run
\* yields 0 new listings and leaves the FoundListing rows unchanged.  Stated
\* for first runs that left a row for every url they saw (a first run whose
\* insert failed has recorded nothing the second run could find).
C3_SecondRunFindsNothingNew ==
    (/\ Len(runs) = 2
     /\ runs[1].item = runs[2].item
     /\ runs[1].urls = runs[2].urls
     /\ runs[1].after = runs[2].before
     /\ \A u \in runs[1].urls : Matches(runs[1].after, runs[1].item, u) /= {}) =>
        /\ runs[2].count = 0
        /\ runs[2].after = runs[2].before

----------------------------------------------------------------------------
(* Properties of POST /ebay-monitor, checked under SpecMonitor *)

\* C11: whenever the client falls back to the synthetic data generator
\* (getMockEbayData for searchActive), the returned sequence contains 2 or 3
\* listings, for every query term and every price ceiling.
C11_SyntheticReturnsTwoOrThree ==
    \A k \in 1..Len(mon[1].searched) :
        (mon[1].searched[k].synthetic /\ ~mon[1].searched[k].threw) =>
            mon[1].searched[k].count \in {2, 3}

\* C13: after processOne has run on an item with a non-blank search term,
\* the item's lastCheckedAt/updatedAt are the time of that run, whatever the
\* outcome of the search, of the existence lookups and of the inserts (the
\* update call itself not failing).
C13_LastCheckedSetByEveryRun ==
    \A k \in 1..Len(mon[1].results) :
        mon[1].outcomes[k] \notin {"skipped", "update failed"} =>
            /\ wishlist_items[mon[1].results[k].itemId].last_checked_at = mon[1].now
            /\ wishlist_items[mon[1].results[k].itemId].updated_at = mon[1].now

\* POST /ebay-monitor without wishlistItemId
BatchMode(m) ==
    /\ m.req.method = "POST"
    /\ m.req.kind \in {"object", "malformed"}
    /\ wishlistItemIdOf(m.req) = ""

\* status = active and a search term that is neither null nor empty
Eligible(id) ==
    /\ wishlist_items[id].status = "active"
    /\ wishlist_items[id].ebay_search_term \notin {NullTerm, <<>>}

\* C14: in batch mode only items with status=active and a non-empty search
\* term are processed: no search is issued and no FoundListing is inserted
\* for a paused item or for an item with an empty or null search term.
C14_BatchOnlyActiveWithTerm ==
    BatchMode(mon[1]) =>
        /\ \A k \in 1..Len(mon[1].started) : Eligible(mon[1].started[k])
        /\ \A k \in 1..Len(mon[1].searched) : Eligible(mon[1].searched[k].item)
        /\ \A i \in 1..Len(found_listings) :
              found_listings[i].found_at = mon[1].now =>
                  Eligible(found_listings[i].wishlist_item_id)

\* a batch answered 200 that searched, one item being paused with a search term
C14_Witness ==
    /\ BatchMode(mon[1])
    /\ mon[1].pc = "responded"
    /\ mon[1].response.status = 200
    /\ mon[1].searched /= <<>>
    /\ \E id \in ItemIds :
          /\ wishlist_items[id].status = "paused"
          /\ ~BlankTerm(wishlist_items[id].ebay_search_term)

RECURSIVE SumFound(_)
SumFound(rs) ==
    IF rs = <<>> THEN 0 ELSE Head(rs).newListingsFound + SumFound(Tail(rs))

\* C15: runBatch processes every selected item exactly once, in selection
\* order; a failure while processing one item contributes 0 for that item
\* and does not prevent the remaining items from being processed.  The
\* report satisfies itemsProcessed = number of selected items = length of
\* results, and totalNewListings = sum of the per-item newListingsFound.
C15_BatchReport ==
    (mon[1].pc = "responded" /\ mon[1].response.status = 200
        /\ mon[1].req.method = "POST") =>
        LET r == mon[1].response
        IN  /\ mon[1].started = mon[1].itemsToProcess
            /\ r.itemsProcessed = Len(mon[1].itemsToProcess)
            /\ r.itemsProcessed = Len(r.results)
            /\ \A k \in 1..Len(r.results) :
                  /\ r.results[k].itemId = mon[1].itemsToProcess[k]
                  /\ mon[1].outcomes[k] = "raised" => r.results[k].newListingsFound = 0
            /\ r.totalNewListings = SumFound(r.results)

\* two items selected, the first one's search raised, the second one found a listing
C15_Witness ==
    /\ mon[1].pc = "responded"
    /\ mon[1].response.status = 200
    /\ Len(mon[1].response.results) = 2
    /\ mon[1].outcomes[1] = "raised"
    /\ mon[1].response.results[2].newListingsFound > 0

\* POST /ebay-monitor with a wishlistItemId that matches no item
UnknownId(m) ==
    /\ m.req.method = "POST"
    /\ m.req.kind = "object"
    /\ m.req.wishlistItemId \notin ItemIds \cup {""}

\* C17: POST /ebay-monitor with a wishlistItemId that matches no
\* WishlistItem responds 404, issues no marketplace search and leaves the
\* store (WishlistItem and FoundListing rows) unchanged.
C17_UnknownIdAnswered404 ==
    (mon[1].pc = "responded" /\ UnknownId(mon[1])) =>
        /\ mon[1].response.status = 404
        /\ mon[1].started = <<>>
        /\ mon[1].searched = <<>>
        /\ wishlist_items = mon[1].before.items
        /\ found_listings = mon[1].before.found

\* the unknown id answered while the store holds found listings
C17_Witness ==
    /\ mon[1].pc = "responded"
    /\ UnknownId(mon[1])
    /\ found_listings /= <<>>

\* C18: POST /ebay-monitor with a malformed JSON body is handled like a
\* POST with the empty object: it runs batch mode over all active items and
\* responds 200, not a client-error status; as for the empty object, the
\* answer is 500 only when the selection query itself fails.
C18_MalformedBodyRunsBatch ==
    (mon[1].pc = "responded" /\ mon[1].req.method = "POST"
        /\ mon[1].req.kind = "malformed") =>
        \/ /\ mon[1].response.status = 200
           /\ mon[1].selection = "ok"
           /\ mon[1].itemsToProcess = ActiveItems
           /\ mon[1].started = ActiveItems
        \/ /\ mon[1].response.status = 500
           /\ mon[1].selection = "error"

\* a malformed body answered 200 after a batch over at least one item
C18_Witness ==
    /\ mon[1].pc = "responded"
    /\ mon[1].req.method = "POST"
    /\ mon[1].req.kind = "malformed"
    /\ mon[1].response.status = 200
    /\ mon[1].searched /= <<>>

----------------------------------------------------------------------------
(* Properties of processWishlistItem and of the searches, under SpecMonitor *)

\* the item processWishlistItem is running on
CurrentItem(m) == m.itemsToProcess[m.pos]

\* C21: every record returned by ListingClient has price > 0, on the live
\* path and on the synthetic path alike (here: the listings searchActive
\* handed to processWishlistItem).
C21_ReturnedPricesPositive ==
    mon[1].pc \in {"lookup", "insert"} =>
        \A i \in 1..Len(mon[1].listings) : mon[1].listings[i].price > 0

\* the rows a request inserted for an item
RowsOf(id, now) ==
    {i \in 1..Len(found_listings) :
        /\ found_listings[i].wishlist_item_id = id
        /\ found_listings[i].found_at = now}

\* C22: processOne returns exactly the number of FoundListing rows it
\* inserted during that run: a failed insert is not counted and does not
\* stop the remaining listings from being checked and inserted, and every
\* successful insert is counted.
C22_CountIsRowsInserted ==
    /\ \A k \in 1..Len(mon[1].results) :
          mon[1].results[k].newListingsFound =
              Cardinality(RowsOf(mon[1].results[k].itemId, mon[1].now))
    /\ mon[1].pc \in {"lookup", "insert"} =>
          /\ mon[1].newListingsCount =
                 Cardinality(RowsOf(CurrentItem(mon[1]), mon[1].now))
          /\ mon[1].newListingsCount + mon[1].insertErrors <= mon[1].idx
    /\ \A k \in 1..Len(runs) :
          runs[k].count = Len(runs[k].after) - Len(runs[k].before)

\* a run whose first insert failed and whose second insert was counted
C22_Witness ==
    \E k \in 1..Len(runs) :
        /\ runs[k].insertErrors = 1
        /\ runs[k].count = 1
        /\ Len(runs[k].after) = Len(runs[k].before) + 1

\* a search term that is missing (null), empty or made of whitespace only
NoSearchTerm(term) == term = NullTerm \/ \A i \in 1..Len(term) : term[i] = SP

\* C23: processOne on an item whose search term is missing, empty or
\* whitespace-only returns 0 and has no effect: no marketplace search, no
\* FoundListing lookup or insert, lastCheckedAt/updatedAt unchanged.
C23_BlankTermSkipped ==
    \A k \in 1..Len(mon[1].results) :
        LET id == mon[1].results[k].itemId
        IN  NoSearchTerm(wishlist_items[id].ebay_search_term) =>
                /\ mon[1].outcomes[k] = "skipped"
                /\ mon[1].results[k].newListingsFound = 0
                /\ \A j \in 1..Len(mon[1].searched) : mon[1].searched[j].item /= id
                /\ RowsOf(id, mon[1].now) = {}
                /\ wishlist_items[id] = mon[1].before.items[id]
                /\ ~(mon[1].pc \in {"lookup", "insert"} /\ CurrentItem(mon[1]) = id)

\* a whitespace-only term was skipped
C23_Witness ==
    \E k \in 1..Len(mon[1].results) :
        /\ wishlist_items[mon[1].results[k].itemId].ebay_search_term = <<SP>>
        /\ mon[1].outcomes[k] = "skipped"

\* a row of wishlist_items without its two timestamps
Untimed(row) == [row EXCEPT !.last_checked_at = 0, !.updated_at = 0]

\* C24: the monitor is append-only and item-local: no step deletes or
\* modifies an existing FoundListing row, every row it inserts has
\* notified=false and the wishlistItemId of the item being processed, and the
\* only WishlistItem fields it writes are lastCheckedAt/updatedAt of the item
\* being processed.
C24_AppendOnlyItemLocal ==
    [][ /\ Len(found_listings') >= Len(found_listings)
        /\ SubSeq(found_listings', 1, Len(found_listings)) = found_listings
        /\ \A i \in (Len(found_listings) + 1)..Len(found_listings') :
              /\ found_listings'[i].notified = FALSE
              /\ found_listings'[i].wishlist_item_id = CurrentItem(mon[1])
        /\ \A id \in ItemIds :
              wishlist_items'[id] /= wishlist_items[id] =>
                  /\ id = CurrentItem(mon[1])
                  /\ Untimed(wishlist_items'[id]) = Untimed(wishlist_items[id])
      ]_vars

\* a run has inserted a row and stamped its item, the other item untouched
C24_Witness ==
    /\ found_listings /= <<>>
    /\ \E id \in ItemIds :
          /\ wishlist_items[id].last_checked_at > 0
          /\ \E other \in ItemIds \ {id} : wishlist_items[other].last_checked_at = 0

\* C27: when the existence lookup does not return exactly one row (an
\* error with no data: store failure, or more than one matching row), the
\* listing is treated as new and an insert is attempted; the insert is not
\* conditional on the lookup having established that no row exists.
C27_InsertUnlessExactlyOneRow ==
    /\ mon[1].lookup \in {"error", "many", "absent"} <=> mon[1].pc = "insert"
    /\ mon[1].lookup = "one" => mon[1].pc /= "insert"

\* an insert is attempted for a pair that has rows in the store
C27_Witness ==
    /\ mon[1].pc = "insert"
    /\ mon[1].lookup \in {"error", "many"}
    /\ Matches(found_listings, CurrentItem(mon[1]),
               mon[1].listings[mon[1].idx].url) /= {}

\* C28: in synthetic-fallback mode all listings fabricated for one term
\* carry the same url and a price not above the given maxPrice, so a run
\* that uses the fallback records at most 1 new FoundListing, and repeated
\* sequential runs leave at most one synthetic FoundListing per item.
C28_FallbackRecordsAtMostOne ==
    /\ (mon[1].pc \in {"lookup", "insert"}
           /\ mon[1].searched[Len(mon[1].searched)].synthetic) =>
          LET max == wishlist_items[CurrentItem(mon[1])].desired_price_max
          IN  /\ Cardinality(UrlsOf(mon[1].listings)) <= 1
              /\ \A i \in 1..Len(mon[1].listings) :
                    max /= 0 => mon[1].listings[i].price <= max
    /\ \A k \in 1..Len(runs) : runs[k].synthetic => runs[k].count <= 1
    /\ \A id \in ItemIds :
          Cardinality({i \in 1..Len(found_listings) :
                /\ found_listings[i].wishlist_item_id = id
                /\ Head(found_listings[i].listing_url) =
                       "https://www.ebay.com/sch/i.html?_nkw="}) <= 1

\* POST /ebay-monitor with the id of an existing item
SingleMode(m) ==
    /\ m.req.method = "POST"
    /\ m.req.kind = "object"
    /\ m.req.wishlistItemId \in ItemIds

\* C30: single-item mode applies no status filter: an existing item named
\* by wishlistItemId is searched and can receive new FoundListing rows even
\* when its status is paused; a wishlistItemId that is the empty string
\* selects batch mode, not single-item mode or a 404.
C30_SingleModeIgnoresStatus ==
    /\ (SingleMode(mon[1]) /\ mon[1].pc = "responded") =>
          LET id == mon[1].req.wishlistItemId
          IN  IF mon[1].selection = "error"
              THEN mon[1].response.status = 404
              ELSE /\ mon[1].response.status = 200
                   /\ mon[1].itemsToProcess = <<id>>
                   /\ mon[1].started = <<id>>
                   /\ ~BlankTerm(wishlist_items[id].ebay_search_term) =>
                         \E j \in 1..Len(mon[1].searched) : mon[1].searched[j].item = id
    /\ (mon[1].pc = "responded" /\ mon[1].req.method = "POST"
           /\ mon[1].req.kind = "object" /\ mon[1].req.wishlistItemId = "") =>
          /\ mon[1].response.status \in {200, 500}
          /\ mon[1].response.status = 200 => mon[1].itemsToProcess = ActiveItems
          /\ mon[1].response.status = 500 => mon[1].selection = "error"

\* a paused item named by id received a row
C30_Witness ==
    /\ SingleMode(mon[1])
    /\ mon[1].pc = "responded"
    /\ wishlist_items[mon[1].req.wishlistItemId].status = "paused"
    /\ RowsOf(mon[1].req.wishlistItemId, mon[1].now) /= {}

----------------------------------------------------------------------------
(* Two invocations of the ebay-monitor function served at the same time:     *)
(* every await of the handler is a point where the other invocation may run *)

\* one item to search, with a price ceiling, and one without search term
ConcurrentTables ==
    { Table(WishlistRow(<<"Hen on Nest">>, "active", 20000),
            WishlistRow(<<>>, "active", 0)) }

\* The store is reliable in these behaviours: no store call fails (the
\* failures the model allows are used up), so that every duplicate is the
\* work of the interleaving, and EBAY_APP_ID is not configured: every search
\* is answered by getMockEbayData.
InitConcurrent ==
    /\ pc = "concurrent"
    /\ MarketIdle
    /\ requestData = NoRequest
    /\ searchTerms = <<>>
    /\ soldItems = <<>>
    /\ analysis = NoAnalysis
    /\ wishlist_items \in ConcurrentTables
    /\ found_listings = <<>>
    /\ monAppId = FALSE
    /\ mon = [p \in Procs |-> IdleMon]
    /\ served = 0
    /\ failures = MaxStoreFailures
    /\ runs = <<>>

NextConcurrent ==
    \E p \in Procs :
        \/ HandleMonitorRequest(p)
        \/ ProcessItem(p)
        \/ Lookup(p)
        \/ Insert(p)
        \/ UpdateChecked(p)
        \/ RespondMonitor(p)

SpecConcurrent == InitConcurrent /\ [][NextConcurrent]_vars

\* the rows of found_listings that share their item and url with another row
Duplicated ==
    {i \in 1..Len(found_listings) :
        \E j \in 1..Len(found_listings) :
            /\ j /= i
            /\ found_listings[j].wishlist_item_id = found_listings[i].wishlist_item_id
            /\ found_listings[j].listing_url = found_listings[i].listing_url}

\* C26: when two processOne runs for the same item interleave, both can
\* perform the existence lookup for the same url before either inserts, so
\* that the store ends with two rows for the same (wishlistItemId, url)
\* pair.  With a reliable store this is the only way to a duplicate: the
\* rows of a duplicated pair were never all inserted by one run.
C26_DuplicatesComeFromTwoRuns ==
    \A i \in Duplicated :
        \E j \in Duplicated :
            /\ found_listings[j].wishlist_item_id = found_listings[i].wishlist_item_id
            /\ found_listings[j].listing_url = found_listings[i].listing_url
            /\ found_listings[j].found_at /= found_listings[i].found_at

\* both runs looked the url up before either inserted,
\* and the store holds two rows for the pair
C26_Witness ==
    /\ Duplicated /= {}
    /\ mon[1].lookup = "none" /\ mon[2].lookup = "none"
    /\ mon[1].newListingsCount = 1 /\ mon[2].newListingsCount = 1
    /\ mon[1].itemsToProcess = mon[2].itemsToProcess
    /\ Len(mon[1].listings) = 1 /\ mon[1].listings = mon[2].listings
    /\ Len(found_listings) = 2

====
